---- MODULE Spec2Model ----
(***************************************************************************)
(* Rainbow Echo Terminal: the pseudoterminal controller                    *)
(* (src/src/pseudoterminal.ts), its stream adapters (src/src/streams.ts)   *)
(* and the Ink application it mounts (src/unnamed/part_002, the async      *)
(* renderApp; src/src/cli.tsx, the standalone variant).                    *)
(*                                                                         *)
(* Objects created by open() are numbered 1, 2, ... in creation order; a   *)
(* reference field of the controller holds 0 for `undefined` or the number *)
(* of the object it points to.  Text is a sequence of one-character        *)
(* strings, so that trim(), slice() and concatenation are computed.        *)
(***************************************************************************)
EXTENDS Integers, Sequences, FiniteSets, TLC

\* ------------------------------------------------------------------ bounds
MaxCalls == 4
MaxOpens == 2
MaxKeys == 4
MaxLen == 2
MaxClock == 1
MaxText == 7
MaxSessionCalls == 3

Gens == 1..MaxOpens

\* ------------------------------------------------------- program constants
DefaultColumns == 80
DefaultRows == 24

DefaultDimensions == [columns |-> DefaultColumns, rows |-> DefaultRows]

\* Dimensions the host may report to open().
HostDimensions ==
    { [columns |-> 100, rows |-> 30] }

\* Dimensions the host may report to setDimensions().
ResizeDimensions ==
    { [columns |-> 120, rows |-> 40] }

\* A string is a sequence of pieces: a run of ASCII text, written as one
\* TLA+ string, or one UTF-16 code unit of a character outside the basic
\* plane, HS for its high surrogate and LS for its low surrogate (the
\* rainbow emoji of the banner and of the title is <<HS, LS>>).
HS == "\\uD83C"
LS == "\\uDF08"
FFFD == "\\uFFFD"

\* Display lines fired by the controller itself.
TestBanner1 == << HS, LS, " Rainbow Echo Terminal (Test Mode)\r\n" >>
TestBanner2 == << "Terminal created successfully in test mode.\r\n" >>
ErrorLine == << "Error: <error>\r\n" >>
\* One frame written by the renderer to its stdout stream: the title line
\* with its emoji, and the rest.
Frame == << HS, LS, " Rainbow Echo Terminal ", HS, LS, "frame" >>

\* ------------------------------------------------------------ text encoding
\* The UTF-8 bytes of the emoji, and of U+FFFD.
EmojiBytes == << "F0", "9F", "8C", "88" >>
FFFDBytes == << "EF", "BF", "BD" >>
LeadBytes == { "F0", "9F", "8C", "88", "EF", "BF", "BD" }

\* s starts with p.
startsWith(s, p) == Len(s) >= Len(p) /\ SubSeq(s, 1, Len(p)) = p

\* s without its first n elements.
drop(s, n) == SubSeq(s, n + 1, Len(s))

\* Buffer.from(string, 'utf8'): a surrogate pair gives the four bytes of its
\* character, a lone surrogate the bytes of U+FFFD, ASCII text its bytes.
RECURSIVE utf8Encode(_)
utf8Encode(units) ==
    IF units = <<>>
    THEN <<>>
    ELSE IF startsWith(units, << HS, LS >>)
    THEN EmojiBytes \o utf8Encode(drop(units, 2))
    ELSE IF Head(units) \in { HS, LS }
    THEN FFFDBytes \o utf8Encode(Tail(units))
    ELSE IF Head(units) = FFFD
    THEN FFFDBytes \o utf8Encode(Tail(units))
    ELSE << Head(units) >> \o utf8Encode(Tail(units))

\* buffer.toString('utf8'): a complete sequence gives its character, a
\* truncated or stray byte sequence gives U+FFFD.
RECURSIVE utf8Decode(_)
utf8Decode(bytes) ==
    IF bytes = <<>>
    THEN <<>>
    ELSE IF startsWith(bytes, EmojiBytes)
    THEN << HS, LS >> \o utf8Decode(drop(bytes, 4))
    ELSE IF startsWith(bytes, FFFDBytes)
    THEN << FFFD >> \o utf8Decode(drop(bytes, 3))
    ELSE IF startsWith(bytes, SubSeq(EmojiBytes, 1, 3))
    THEN << FFFD >> \o utf8Decode(drop(bytes, 3))
    ELSE IF startsWith(bytes, SubSeq(EmojiBytes, 1, 2))
    THEN << FFFD >> \o utf8Decode(drop(bytes, 2))
    ELSE IF Head(bytes) \in LeadBytes
    THEN << FFFD >> \o utf8Decode(Tail(bytes))
    ELSE << Head(bytes) >> \o utf8Decode(Tail(bytes))

\* A chunk handed to a stream: a string or a Buffer.
StringChunk(units) == [type |-> "string", data |-> units]
BufferChunk(bytes) == [type |-> "buffer", data |-> bytes]

\* chunk.toString()
toString(chunk) ==
    IF chunk.type = "buffer" THEN utf8Decode(chunk.data) ELSE chunk.data

\* ------------------------------------------------------------------- text
\* Characters the user can type; " " stands for the whitespace characters.
Chars == {"h", "i", " "}
WhiteSpace == {" ", "\t", "\n", "\r"}

RECURSIVE trimStart(_)
trimStart(s) ==
    IF s # <<>> /\ Head(s) \in WhiteSpace THEN trimStart(Tail(s)) ELSE s

RECURSIVE trimEnd(_)
trimEnd(s) ==
    IF s # <<>> /\ s[Len(s)] \in WhiteSpace
    THEN trimEnd(SubSeq(s, 1, Len(s) - 1))
    ELSE s

\* String.prototype.trim
trim(s) == trimEnd(trimStart(s))

\* prev.slice(0, -1)
sliceLast(s) == IF s = <<>> THEN <<>> ELSE SubSeq(s, 1, Len(s) - 1)

\* ------------------------------------------------------------- key events
\* The (char, key) pair Ink hands to the useInput handler.
NoKey ==
    [char |-> <<>>, return |-> FALSE, backspace |-> FALSE, delete |-> FALSE,
     escape |-> FALSE, ctrl |-> FALSE, meta |-> FALSE]

CharKey(c) == [NoKey EXCEPT !.char = <<c>>]
EnterKey == [NoKey EXCEPT !.return = TRUE]
BackspaceKey == [NoKey EXCEPT !.backspace = TRUE]
DeleteKey == [NoKey EXCEPT !.delete = TRUE]
EscapeKey == [NoKey EXCEPT !.escape = TRUE]

\* Key events delivered to the application.
KeyEvents ==
    { CharKey(c) : c \in Chars }
        \cup { EnterKey, BackspaceKey, DeleteKey, EscapeKey }
        \cup { [CharKey("h") EXCEPT !.ctrl = TRUE],
               [CharKey("h") EXCEPT !.meta = TRUE],
               [NoKey EXCEPT !.char = <<"h", "i">>],
               NoKey,
               [EnterKey EXCEPT !.escape = TRUE],
               [BackspaceKey EXCEPT !.escape = TRUE] }

\* Chunks the host sends to handleInput: Enter, Backspace (DEL), Escape, a
\* printable character.
CR == "\r"
DEL == "DEL"
ESC == "ESC"
HostChunks == {"h", CR, ESC}

\* The key event the renderer's input parser makes of one chunk.
parseKeypress(chunk) ==
    CASE chunk = CR -> EnterKey
      [] chunk = DEL -> BackspaceKey
      [] chunk = ESC -> EscapeKey
      [] OTHER -> CharKey(chunk)

\* ------------------------------------------------------------------ state
VARIABLES
    testMode,      \* RainbowPseudoterminal.testMode
    stdin,         \* RainbowPseudoterminal.stdin: 0 or the readable's number
    stdout,        \* RainbowPseudoterminal.stdout
    stderr,        \* RainbowPseudoterminal.stderr
    inkInstance,   \* RainbowPseudoterminal.inkInstance
    writeEvents,   \* what writeEmitter has fired, in order
    closeEvents,   \* the exit codes closeEmitter has fired, in order
    opens,         \* number of open() calls = number of objects created
    readable,      \* the PseudoTerminalReadable objects
    out,           \* the stdout-role PseudoTerminalWritable objects
    err,           \* the stderr-role PseudoTerminalWritable objects
    ink,           \* the renderer instances: none, pending, mounted, ...
    hook,          \* waitUntilExit().then(...) of each instance
    unmountCalls,  \* unmount() calls the controller made on each instance
    app,           \* the App component's state of each instance
    processExits,  \* the codes process.exit was called with
    thrown,        \* an exception escaped a host callback
    lifecycle,     \* Idle, Open or Closed
    calls,         \* number of host calls (open, close, handleInput, setDimensions)
    now,           \* Date.now()
    lastOp,        \* the operation that made the last step
    lastKey,       \* the key event handled in the last step, NoKey if none
    host,          \* the extension host: activation, commands, terminals
    peer,          \* the fields of the second RainbowPseudoterminal instance
    owner,         \* the controller whose open() created the objects numbered g
    actor          \* the terminal whose controller made the last step

vars ==
    << testMode, stdin, stdout, stderr, inkInstance, writeEvents, closeEvents,
       opens, readable, out, err, ink, hook, unmountCalls, app, processExits,
       thrown, lifecycle, calls, now, lastOp, lastKey, host, peer, owner,
       actor >>

\* The program state the methods below read and write, as one value: the
\* fields of the controller numbered 1 (`self`, the `this` of its methods)
\* and the objects.
St ==
    [self |-> 1, testMode |-> testMode, owner |-> owner,
     stdin |-> stdin, stdout |-> stdout, stderr |-> stderr,
     inkInstance |-> inkInstance, writeEvents |-> writeEvents,
     closeEvents |-> closeEvents, readable |-> readable, out |-> out,
     err |-> err, ink |-> ink, hook |-> hook, unmountCalls |-> unmountCalls,
     app |-> app, processExits |-> processExits, thrown |-> thrown,
     lifecycle |-> lifecycle]

\* The next state is S.
Becomes(S) ==
    /\ stdin' = S.stdin
    /\ stdout' = S.stdout
    /\ stderr' = S.stderr
    /\ inkInstance' = S.inkInstance
    /\ writeEvents' = S.writeEvents
    /\ closeEvents' = S.closeEvents
    /\ readable' = S.readable
    /\ out' = S.out
    /\ err' = S.err
    /\ ink' = S.ink
    /\ hook' = S.hook
    /\ unmountCalls' = S.unmountCalls
    /\ app' = S.app
    /\ processExits' = S.processExits
    /\ thrown' = S.thrown
    /\ lifecycle' = S.lifecycle
    /\ owner' = S.owner

\* ---------------------------------------------------------- input adapter
\* new PseudoTerminalReadable(): `pushed` is what push(data) has handed to
\* the stream's consumer and the consumer has not read yet, `ended` says
\* that push(null) has signalled end-of-stream, `endSignals` counts the
\* end-of-stream signals given to the consumer, `closeCalls` counts the
\* calls of close().
newReadable ==
    [buffer |-> <<>>, isClosed |-> FALSE, pushed |-> <<>>, ended |-> FALSE,
     endSignals |-> 0, closeCalls |-> 0]

\* A _read that takes a chunk off the queue only once push() has accepted
\* it: a refused chunk stays queued.
RECURSIVE _readKeepsRefused(_, _)
_readKeepsRefused(r, pushOk) ==
    IF Len(r.buffer) > 0 /\ ~r.isClosed /\ pushOk
    THEN _readKeepsRefused([r EXCEPT !.buffer = Tail(@),
                                     !.pushed = Append(@, Head(r.buffer))],
                           pushOk)
    ELSE r

\* _read(): pushOk is what push() returns.
RECURSIVE _read(_, _)
_read(r, pushOk) ==
    IF Len(r.buffer) > 0 /\ ~r.isClosed
    THEN LET data == Head(r.buffer)
             r1 == [r EXCEPT !.buffer = Tail(@), !.pushed = Append(@, data)]
         IN  IF ~pushOk THEN r1 ELSE _read(r1, pushOk)
    ELSE r

\* feedInput that only enqueues: the chunk waits for the consumer's next
\* read.
feedInputEnqueueOnly(r, data, pushOk) ==
    IF r.isClosed THEN r ELSE [r EXCEPT !.buffer = Append(@, data)]

feedInput(r, data, pushOk) ==
    IF r.isClosed
    THEN r
    ELSE _read([r EXCEPT !.buffer = Append(@, data)], pushOk)

\* push(null) that signals end-of-stream on every call.
pushNullAlways(r) == [r EXCEPT !.ended = TRUE, !.endSignals = @ + 1]

\* push(null): the stream signals end-of-stream once; on an ended stream it
\* does nothing.
pushNull(r) ==
    IF r.ended THEN r ELSE [r EXCEPT !.ended = TRUE, !.endSignals = @ + 1]

\* PseudoTerminalReadable.close()
Readable_close(r) ==
    pushNull([r EXCEPT !.isClosed = TRUE, !.closeCalls = @ + 1])

\* --------------------------------------------------------- output adapter
\* A constructor that leaves columns and rows unset.
newWritableUnset(dimensions) == [columns |-> 0, rows |-> 0, callbacks |-> 0]

\* new PseudoTerminalWritable(writeEmitter, dimensions): `callbacks` counts
\* the write callbacks _write has invoked.
newWritable(dimensions) ==
    [columns |-> dimensions.columns, rows |-> dimensions.rows, callbacks |-> 0]

updateDimensions(w, dimensions) ==
    [w EXCEPT !.columns = dimensions.columns, !.rows = dimensions.rows]

\* writeEmitter.fire(data)
fire(S, data) == [S EXCEPT !.writeEvents = Append(@, data)]

\* A _write that keeps the chunk for later: nothing is fired.
_writeDeferred(S, role, g, chunk) == [S EXCEPT ![role][g].callbacks = @ + 1]

\* PseudoTerminalWritable._write(chunk, encoding, callback) on the writable
\* S[role][g], role "out" or "err": every writable of the controller shares
\* the controller's writeEmitter; callback() is invoked after fire().
_write(S, role, g, chunk) ==
    LET data == toString(chunk)
        S1 == fire(S, data)
    IN  [S1 EXCEPT ![role][g].callbacks = @ + 1]

\* Writable.write(chunk), inherited: the stream is constructed with the
\* default decodeStrings, so a string reaches _write as the Buffer of its
\* UTF-8 bytes.
write(S, role, g, chunk) ==
    _write(S, role, g,
           IF chunk.type = "string"
           THEN BufferChunk(utf8Encode(chunk.data))
           ELSE chunk)

\* ------------------------------------------------------------- controller
\* instance.unmount(): the controller's call on instance g.
unmount(S, g) ==
    [S EXCEPT !.unmountCalls[g] = @ + 1,
              !.ink[g] = IF @ = "mounted" THEN "unmounted" ELSE @]

\* unmount() raises when the instance is already unmounted (the case the
\* catch in cleanup() is written for).
unmountRaises(S, g) == S.ink[g] # "mounted"

\* cleanup() without its try/catch around unmount(): an exception of
\* unmount() escapes and the input adapter is not closed.
cleanupNoCatch(S) ==
    LET inkInstanceToCleanup == S.inkInstance
        stdinToCleanup == S.stdin
        S1 == [S EXCEPT !.inkInstance = 0, !.stdin = 0, !.stdout = 0,
                        !.stderr = 0, !.lifecycle = "Closed"]
        raised == inkInstanceToCleanup # 0
                      /\ unmountRaises(S1, inkInstanceToCleanup)
        S2 == IF inkInstanceToCleanup # 0
              THEN unmount(S1, inkInstanceToCleanup)
              ELSE S1
    IN  IF raised
        THEN [S2 EXCEPT !.thrown = TRUE]
        ELSE IF stdinToCleanup # 0
        THEN [S2 EXCEPT !.readable[stdinToCleanup] = Readable_close(@)]
        ELSE S2

\* cleanup() without "clear immediately to prevent double cleanup": the
\* references are kept.
cleanupNoClear(S) ==
    LET S1 == [S EXCEPT !.lifecycle = "Closed"]
        S2 == IF S.inkInstance # 0 THEN unmount(S1, S.inkInstance) ELSE S1
    IN  IF S.stdin # 0
        THEN [S2 EXCEPT !.readable[S.stdin] = Readable_close(@)]
        ELSE S2

cleanup(S) ==
    LET inkInstanceToCleanup == S.inkInstance
        stdinToCleanup == S.stdin
        S1 == [S EXCEPT !.inkInstance = 0, !.stdin = 0, !.stdout = 0,
                        !.stderr = 0, !.lifecycle = "Closed"]
        \* try { unmount() } catch { }: raised or not, cleanup goes on.
        S2 == IF inkInstanceToCleanup # 0
              THEN IF unmountRaises(S1, inkInstanceToCleanup)
                   THEN unmount(S1, inkInstanceToCleanup)
                   ELSE unmount(S1, inkInstanceToCleanup)
              ELSE S1
        \* try { close() } catch { }
        S3 == IF stdinToCleanup # 0
              THEN [S2 EXCEPT !.readable[stdinToCleanup] = Readable_close(@)]
              ELSE S2
    IN  S3

handleExit(S, exitCode) ==
    LET S1 == cleanup(S)
    IN  [S1 EXCEPT !.closeEvents = Append(@, exitCode)]

\* The then-callback without its `if (this.inkInstance)` test.
thenCallbackUnguarded(S, g) == handleExit([S EXCEPT !.hook[g] = "fired"], 0)

\* inkInstance.waitUntilExit().then(() => { if (this.inkInstance) ... })
thenCallback(S, g) ==
    LET S1 == [S EXCEPT !.hook[g] = "fired"]
    IN  IF S1.inkInstance # 0 THEN handleExit(S1, 0) ELSE S1

\* The promise callbacks that run once the current callback has returned:
\* the then-callback of every instance that has ended.
RECURSIVE settle(_)
settle(S) ==
    LET due == { g \in Gens : S.ink[g] = "unmounted" /\ S.hook[g] = "registered" }
    IN  IF due = {}
        THEN S
        ELSE settle(thenCallback(S, CHOOSE g \in due : \A h \in due : g <= h))

close(S) == cleanup(S)

processInput(data) == data

\* handleInput() without its `if (this.stdin)` test: feedInput of undefined
\* raises a TypeError.
handleInputUnguarded(S, data, pushOk) ==
    IF S.stdin # 0
    THEN [S EXCEPT !.readable[S.stdin] = feedInput(@, processInput(data), pushOk)]
    ELSE [S EXCEPT !.thrown = TRUE]

handleInput(S, data, pushOk) ==
    IF S.stdin # 0
    THEN [S EXCEPT !.readable[S.stdin] = feedInput(@, processInput(data), pushOk)]
    ELSE S

\* setDimensions that forwards to the stdout writable only.
setDimensionsStdoutOnly(S, dimensions) ==
    IF S.stdout # 0
    THEN [S EXCEPT !.out[S.stdout] = updateDimensions(@, dimensions)]
    ELSE S

setDimensions(S, dimensions) ==
    LET S1 == IF S.stdout # 0
              THEN [S EXCEPT !.out[S.stdout] = updateDimensions(@, dimensions)]
              ELSE S
    IN  IF S1.stderr # 0
        THEN [S1 EXCEPT !.err[S1.stderr] = updateDimensions(@, dimensions)]
        ELSE S1

\* ------------------------------------------------------------ application
\* The App component after its first render.  `closure` is the inputText
\* captured by the useInput handler that is subscribed at the moment (the
\* handler of the last committed render whose effects have run); `dirty`
\* says that state was set since that render; `effectDeps` is the value of
\* isExiting the exit effect last ran with; `onExit` says whether the caller
\* supplied an exit callback; `exits` counts the exit effect's calls of
\* onExit / process.exit; `events` counts the key events handled; `rendered`
\* holds the RainbowText elements of the last committed render, one for each
\* history entry.
newApp(onExit) ==
    [inputText |-> <<>>, history |-> <<>>, isExiting |-> FALSE,
     closure |-> <<>>, dirty |-> FALSE, effectDeps |-> FALSE,
     onExit |-> onExit, exits |-> 0, events |-> 0, rendered |-> <<>>]

RAINBOW_COLORS == << "red", "yellow", "green", "cyan", "blue", "magenta" >>

\* A formatter whose colour index stops at the last colour instead of
\* wrapping around.
RainbowTextClamped(text) ==
    [i \in 1..Len(text) |->
        LET index == i - 1
            colorIndex == IF index < Len(RAINBOW_COLORS)
                          THEN index
                          ELSE Len(RAINBOW_COLORS) - 1
        IN  [key |-> index, color |-> RAINBOW_COLORS[colorIndex + 1],
             char |-> text[i]]]

\* A formatter that colours the first six characters and drops the rest.
RainbowTextFirstSix(text) ==
    [i \in 1..(IF Len(text) < 6 THEN Len(text) ELSE 6) |->
        LET index == i - 1
            colorIndex == index % Len(RAINBOW_COLORS)
        IN  [key |-> index, color |-> RAINBOW_COLORS[colorIndex + 1],
             char |-> text[i]]]

\* RainbowText({ text }): text.split('').map((char, index) => ...), one
\* coloured element for each UTF-16 code unit.  Positions here count from 1,
\* the code's index from 0.
RainbowText(text) ==
    [i \in 1..Len(text) |->
        LET index == i - 1
            colorIndex == index % Len(RAINBOW_COLORS)
        IN  [key |-> index, color |-> RAINBOW_COLORS[colorIndex + 1],
             char |-> text[i]]]

\* history.map(entry => ... RainbowText({ text: entry.text }) ...)
renderHistory(history) ==
    [j \in 1..Len(history) |-> RainbowText(history[j].text)]

\* The handler with `if (inputText)` for `if (inputText.trim())`.
useInputNoTrim(a, key, t) ==
    LET inputText == a.closure
        a1 ==
            IF key.return
            THEN IF inputText # <<>>
                 THEN [a EXCEPT !.history =
                                   Append(@, [text |-> inputText, timestamp |-> t]),
                                !.inputText = <<>>]
                 ELSE a
            ELSE IF key.backspace \/ key.delete
            THEN [a EXCEPT !.inputText = sliceLast(@)]
            ELSE IF key.escape
            THEN [a EXCEPT !.isExiting = TRUE]
            ELSE IF ~key.ctrl /\ ~key.meta /\ Len(key.char) = 1
            THEN [a EXCEPT !.inputText = @ \o key.char]
            ELSE a
    IN  [a1 EXCEPT !.dirty = @ \/ a1 # a, !.events = @ + 1]

\* The handler with setHistory([entry]) for setHistory(prev => [...prev, entry]).
useInputResetHistory(a, key, t) ==
    LET inputText == a.closure
        a1 ==
            IF key.return
            THEN IF trim(inputText) # <<>>
                 THEN [a EXCEPT !.history =
                                   << [text |-> inputText, timestamp |-> t] >>,
                                !.inputText = <<>>]
                 ELSE a
            ELSE IF key.backspace \/ key.delete
            THEN [a EXCEPT !.inputText = sliceLast(@)]
            ELSE IF key.escape
            THEN [a EXCEPT !.isExiting = TRUE]
            ELSE IF ~key.ctrl /\ ~key.meta /\ Len(key.char) = 1
            THEN [a EXCEPT !.inputText = @ \o key.char]
            ELSE a
    IN  [a1 EXCEPT !.dirty = @ \/ a1 # a, !.events = @ + 1]

\* The handler with the new entry put before the earlier ones.
useInputPrepend(a, key, t) ==
    LET inputText == a.closure
        a1 ==
            IF key.return
            THEN IF trim(inputText) # <<>>
                 THEN [a EXCEPT !.history =
                                   << [text |-> inputText, timestamp |-> t] >> \o @,
                                !.inputText = <<>>]
                 ELSE a
            ELSE IF key.backspace \/ key.delete
            THEN [a EXCEPT !.inputText = sliceLast(@)]
            ELSE IF key.escape
            THEN [a EXCEPT !.isExiting = TRUE]
            ELSE IF ~key.ctrl /\ ~key.meta /\ Len(key.char) = 1
            THEN [a EXCEPT !.inputText = @ \o key.char]
            ELSE a
    IN  [a1 EXCEPT !.dirty = @ \/ a1 # a, !.events = @ + 1]

\* The handler with setInputText(inputText.slice(0, -1)): the delete branch
\* acts on the captured text.
useInputDeleteCaptured(a, key, t) ==
    LET inputText == a.closure
        a1 ==
            IF key.return
            THEN IF trim(inputText) # <<>>
                 THEN [a EXCEPT !.history =
                                   Append(@, [text |-> inputText, timestamp |-> t]),
                                !.inputText = <<>>]
                 ELSE a
            ELSE IF key.backspace \/ key.delete
            THEN [a EXCEPT !.inputText = sliceLast(inputText)]
            ELSE IF key.escape
            THEN [a EXCEPT !.isExiting = TRUE]
            ELSE IF ~key.ctrl /\ ~key.meta /\ Len(key.char) = 1
            THEN [a EXCEPT !.inputText = @ \o key.char]
            ELSE a
    IN  [a1 EXCEPT !.dirty = @ \/ a1 # a, !.events = @ + 1]

\* The handler calling the exit callback itself on Escape, besides setting
\* isExiting for the effect.
useInputExitsItself(a, key, t) ==
    LET inputText == a.closure
        a1 ==
            IF key.return
            THEN IF trim(inputText) # <<>>
                 THEN [a EXCEPT !.history =
                                   Append(@, [text |-> inputText, timestamp |-> t]),
                                !.inputText = <<>>]
                 ELSE a
            ELSE IF key.backspace \/ key.delete
            THEN [a EXCEPT !.inputText = sliceLast(@)]
            ELSE IF key.escape
            THEN [a EXCEPT !.isExiting = TRUE, !.exits = @ + 1]
            ELSE IF ~key.ctrl /\ ~key.meta /\ Len(key.char) = 1
            THEN [a EXCEPT !.inputText = @ \o key.char]
            ELSE a
    IN  [a1 EXCEPT !.dirty = @ \/ a1 # a, !.events = @ + 1]

\* The handler with its branches as independent `if`s: every branch whose
\* test holds runs.
useInputNoElse(a, key, t) ==
    LET inputText == a.closure
        a1 == IF key.return /\ trim(inputText) # <<>>
              THEN [a EXCEPT !.history =
                                Append(@, [text |-> inputText, timestamp |-> t]),
                             !.inputText = <<>>]
              ELSE a
        a2 == IF key.backspace \/ key.delete
              THEN [a1 EXCEPT !.inputText = sliceLast(@)]
              ELSE a1
        a3 == IF key.escape THEN [a2 EXCEPT !.isExiting = TRUE] ELSE a2
        a4 == IF ~key.ctrl /\ ~key.meta /\ Len(key.char) = 1
              THEN [a3 EXCEPT !.inputText = @ \o key.char]
              ELSE a3
    IN  [a4 EXCEPT !.dirty = @ \/ a4 # a, !.events = @ + 1]

\* The handler whose character branch does not test the modifiers.
useInputIgnoresModifiers(a, key, t) ==
    LET inputText == a.closure
        a1 ==
            IF key.return
            THEN IF trim(inputText) # <<>>
                 THEN [a EXCEPT !.history =
                                   Append(@, [text |-> inputText, timestamp |-> t]),
                                !.inputText = <<>>]
                 ELSE a
            ELSE IF key.backspace \/ key.delete
            THEN [a EXCEPT !.inputText = sliceLast(@)]
            ELSE IF key.escape
            THEN [a EXCEPT !.isExiting = TRUE]
            ELSE IF Len(key.char) = 1
            THEN [a EXCEPT !.inputText = @ \o key.char]
            ELSE a
    IN  [a1 EXCEPT !.dirty = @ \/ a1 # a, !.events = @ + 1]

\* The handler given to useInput, run on key event (char, key) at time t.
\* The submit branch reads the handler's captured inputText; the setters
\* given a function (prev => ...) act on the current state.
useInput(a, key, t) ==
    LET inputText == a.closure
        a1 ==
            IF key.return
            THEN IF trim(inputText) # <<>>
                 THEN [a EXCEPT !.history =
                                   Append(@, [text |-> inputText, timestamp |-> t]),
                                !.inputText = <<>>]
                 ELSE a
            ELSE IF key.backspace \/ key.delete
            THEN [a EXCEPT !.inputText = sliceLast(@)]
            ELSE IF key.escape
            THEN [a EXCEPT !.isExiting = TRUE]
            ELSE IF ~key.ctrl /\ ~key.meta /\ Len(key.char) = 1
            THEN [a EXCEPT !.inputText = @ \o key.char]
            ELSE a
    IN  [a1 EXCEPT !.dirty = @ \/ a1 # a, !.events = @ + 1]

\* An exit callback that does nothing.
onExitCallbackNoop(S) == S

\* The exit callback open() hands to renderApp: () => { this.handleExit(); }
onExitCallback(S) == handleExit(S, 0)

\* The effect of the standalone variant, which never looks for an exit
\* callback, in the embedded application.
useEffectProcessOnly(S, g) ==
    LET a == S.app[g]
        S1 == [S EXCEPT !.app[g].effectDeps = a.isExiting]
    IN  IF a.isExiting = a.effectDeps
        THEN S
        ELSE IF ~a.isExiting
        THEN S1
        ELSE [S1 EXCEPT !.app[g].exits = @ + 1,
                        !.processExits = Append(@, 0)]

\* useEffect(() => { if (isExiting) ... }, [isExiting, onExit]) of instance g.
useEffect(S, g) ==
    LET a == S.app[g]
        S1 == [S EXCEPT !.app[g].effectDeps = a.isExiting]
    IN  IF a.isExiting = a.effectDeps
        THEN S
        ELSE IF ~a.isExiting
        THEN S1
        ELSE IF a.onExit
        THEN onExitCallback([S1 EXCEPT !.app[g].exits = @ + 1])
        ELSE [S1 EXCEPT !.app[g].exits = @ + 1,
                        !.processExits = Append(@, 0)]

\* A re-render of instance g is committed: the frame is written to the
\* instance's stdout (the controller's adapter when there is an exit
\* callback, the process's own stdout otherwise), the handler of this
\* render is subscribed, and the effects whose dependencies changed run.
rerender(S, g) ==
    LET S1 == IF S.app[g].onExit
              THEN write(S, "out", g, StringChunk(Frame))
              ELSE S
        S2 == [S1 EXCEPT !.app[g].closure = S.app[g].inputText,
                         !.app[g].rendered = renderHistory(S.app[g].history),
                         !.app[g].dirty = FALSE]
    IN  useEffect(S2, g)

\* --------------------------------------------------------- open and mount
\* A catch that only logs: no message, no handleExit(1).
mountFailedSilent(S, g) == [S EXCEPT !.ink[g] = "failed"]

\* The catch of open()'s async block.
mountFailed(S, g) ==
    handleExit(fire([S EXCEPT !.ink[g] = "failed"], ErrorLine), 1)

\* renderApp(...) has resolved: the renderer wrote its first frame, and the
\* continuation stores the instance and registers the then-callback.
mountComplete(S, g) ==
    LET S1 == write([S EXCEPT !.ink[g] = "mounted", !.app[g] = newApp(TRUE)],
                    "out", g, StringChunk(Frame))
    IN  [S1 EXCEPT !.inkInstance = g, !.hook[g] = "registered"]

\* open() that gives the stderr-role writable the default dimensions.
openStderrDefault(S, g, initialDimensions, requireFails) ==
    LET dimensions ==
            IF initialDimensions = {}
            THEN DefaultDimensions
            ELSE CHOOSE d \in initialDimensions : TRUE
        S1 == [S EXCEPT !.stdin = g, !.stdout = g, !.stderr = g,
                        !.owner[g] = S.self,
                        !.readable[g] = newReadable,
                        !.out[g] = newWritable(dimensions),
                        !.err[g] = newWritable(DefaultDimensions),
                        !.lifecycle = "Open"]
    IN  IF S.testMode
        THEN fire(fire(S1, TestBanner1), TestBanner2)
        ELSE IF requireFails
        THEN mountFailed(S1, g)
        ELSE [S1 EXCEPT !.ink[g] = "pending"]

\* open() that does not construct adapters of its own: every controller
\* uses the adapters numbered 1 (module-level streams).
openShared(S, g, initialDimensions, requireFails) ==
    LET dimensions ==
            IF initialDimensions = {}
            THEN DefaultDimensions
            ELSE CHOOSE d \in initialDimensions : TRUE
        S1 == [S EXCEPT !.stdin = 1, !.stdout = 1, !.stderr = 1,
                        !.owner[1] = S.self,
                        !.readable[1] = newReadable,
                        !.out[1] = newWritable(dimensions),
                        !.err[1] = newWritable(dimensions),
                        !.lifecycle = "Open"]
    IN  IF S.testMode
        THEN fire(fire(S1, TestBanner1), TestBanner2)
        ELSE IF requireFails
        THEN mountFailed(S1, 1)
        ELSE [S1 EXCEPT !.ink[1] = "pending"]

\* open() whose test-mode branch does not return: after the banner the
\* renderer is mounted all the same.
openTestModeMounts(S, g, initialDimensions, requireFails) ==
    LET dimensions ==
            IF initialDimensions = {}
            THEN DefaultDimensions
            ELSE CHOOSE d \in initialDimensions : TRUE
        S1 == [S EXCEPT !.stdin = g, !.stdout = g, !.stderr = g,
                        !.owner[g] = S.self,
                        !.readable[g] = newReadable,
                        !.out[g] = newWritable(dimensions),
                        !.err[g] = newWritable(dimensions),
                        !.lifecycle = "Open"]
        S2 == IF S.testMode
              THEN fire(fire(S1, TestBanner1), TestBanner2)
              ELSE S1
    IN  IF requireFails
        THEN mountFailed(S2, g)
        ELSE [S2 EXCEPT !.ink[g] = "pending"]

\* open(initialDimensions) creating the objects numbered g.  The argument is
\* {} for undefined, {d} for dimensions d.  requireFails: require() of the
\* compiled cli module throws, which the async block's catch handles before
\* open() returns.
open(S, g, initialDimensions, requireFails) ==
    LET dimensions ==
            IF initialDimensions = {}
            THEN DefaultDimensions
            ELSE CHOOSE d \in initialDimensions : TRUE
        S1 == [S EXCEPT !.stdin = g, !.stdout = g, !.stderr = g,
                        !.owner[g] = S.self,
                        !.readable[g] = newReadable,
                        !.out[g] = newWritable(dimensions),
                        !.err[g] = newWritable(dimensions),
                        !.lifecycle = "Open"]
    IN  IF S.testMode
        THEN fire(fire(S1, TestBanner1), TestBanner2)
        ELSE IF requireFails
        THEN mountFailed(S1, g)
        ELSE [S1 EXCEPT !.ink[g] = "pending"]

\* ---------------------------------------------------------------- actions
Running == processExits = <<>>

\* A step of the controller numbered 1 or of its application: the extension
\* host and the second controller are not involved.
Solo == actor' = 1 /\ UNCHANGED << host, peer >>

\* The host opens the terminal.
Open(initialDimensions, requireFails) ==
    /\ Running
    /\ calls < MaxCalls
    /\ opens < MaxOpens
    /\ Becomes(settle(open(St, opens + 1, initialDimensions, requireFails)))
    /\ opens' = opens + 1
    /\ calls' = calls + 1
    /\ lastOp' = "open"
    /\ lastKey' = NoKey
    /\ Solo
    /\ UNCHANGED << testMode, now >>

\* The host closes the terminal.
Close ==
    /\ Running
    /\ calls < MaxCalls
    /\ Becomes(settle(close(St)))
    /\ calls' = calls + 1
    /\ lastOp' = "close"
    /\ lastKey' = NoKey
    /\ Solo
    /\ UNCHANGED << testMode, opens, now >>

\* The user types in the terminal.
HandleInput(data) ==
    /\ Running
    /\ calls < MaxCalls
    /\ \E pushOk \in BOOLEAN : Becomes(handleInput(St, data, pushOk))
    /\ calls' = calls + 1
    /\ lastOp' = "handleInput"
    /\ lastKey' = NoKey
    /\ Solo
    /\ UNCHANGED << testMode, opens, now >>

\* The terminal is resized.
SetDimensions(dimensions) ==
    /\ Running
    /\ calls < MaxCalls
    /\ Becomes(setDimensions(St, dimensions))
    /\ calls' = calls + 1
    /\ lastOp' = "setDimensions"
    /\ lastKey' = NoKey
    /\ Solo
    /\ UNCHANGED << testMode, opens, now >>

\* await renderApp(...) resolves.
MountComplete(g) ==
    /\ Running
    /\ ink[g] = "pending"
    /\ Becomes(settle(mountComplete(St, g)))
    /\ lastOp' = "mountComplete"
    /\ lastKey' = NoKey
    /\ Solo
    /\ UNCHANGED << testMode, opens, calls, now >>

\* await renderApp(...) rejects.
MountFailed(g) ==
    /\ Running
    /\ ink[g] = "pending"
    /\ Becomes(settle(mountFailed(St, g)))
    /\ lastOp' = "mountFailed"
    /\ lastKey' = NoKey
    /\ Solo
    /\ UNCHANGED << testMode, opens, calls, now >>

\* The renderer ends by itself: waitUntilExit() resolves.
InkExits(g) ==
    /\ Running
    /\ ink[g] = "mounted"
    /\ app[g].onExit
    /\ Becomes(settle([St EXCEPT !.ink[g] = "unmounted"]))
    /\ lastOp' = "inkExits"
    /\ lastKey' = NoKey
    /\ Solo
    /\ UNCHANGED << testMode, opens, calls, now >>

\* The application handles the key event `key`.
KeyEvent(g, key) ==
    /\ Running
    /\ ink[g] = "mounted"
    /\ app[g].events < MaxKeys
    /\ Len(app[g].inputText) < MaxLen \/ Len(key.char) # 1
    /\ Becomes([St EXCEPT !.app[g] = useInput(@, key, now)])
    /\ lastOp' = "keyEvent"
    /\ lastKey' = key
    /\ Solo
    /\ UNCHANGED << testMode, opens, calls, now >>

\* The renderer reads the next chunk of its stdin and hands the key event
\* to the application.
AppInput(g) ==
    /\ Running
    /\ ink[g] = "mounted"
    /\ readable[g].pushed # <<>>
    /\ LET chunk == Head(readable[g].pushed)
           S1 == [St EXCEPT !.readable[g].pushed = Tail(@)]
       IN  /\ Becomes([S1 EXCEPT !.app[g] =
                                     useInput(@, parseKeypress(chunk), now)])
           /\ lastKey' = parseKeypress(chunk)
    /\ lastOp' = "appInput"
    /\ Solo
    /\ UNCHANGED << testMode, opens, calls, now >>

\* React commits the re-render of instance g.
AppRender(g) ==
    /\ Running
    /\ ink[g] = "mounted"
    /\ app[g].dirty
    /\ Becomes(settle(rerender(St, g)))
    /\ lastOp' = "appRender"
    /\ lastKey' = NoKey
    /\ Solo
    /\ UNCHANGED << testMode, opens, calls, now >>

\* The clock advances.
Tick ==
    /\ Running
    /\ now < MaxClock
    /\ now' = now + 1
    /\ lastOp' = "tick"
    /\ lastKey' = NoKey
    /\ Solo
    /\ UNCHANGED << testMode, stdin, stdout, stderr, inkInstance, writeEvents,
                    closeEvents, opens, readable, out, err, ink, hook,
                    unmountCalls, app, processExits, thrown, lifecycle, calls,
                    owner >>

\* A caller feeds the input adapter numbered 1 directly.
FeedInput(data) ==
    /\ calls < MaxCalls
    /\ \E pushOk \in BOOLEAN :
           Becomes([St EXCEPT !.readable[1] = feedInput(@, data, pushOk)])
    /\ calls' = calls + 1
    /\ lastOp' = "feedInput"
    /\ lastKey' = NoKey
    /\ Solo
    /\ UNCHANGED << testMode, opens, now >>

\* A caller closes the input adapter numbered 1.
ReadableClose ==
    /\ calls < MaxCalls
    /\ Becomes([St EXCEPT !.readable[1] = Readable_close(@)])
    /\ calls' = calls + 1
    /\ lastOp' = "readableClose"
    /\ lastKey' = NoKey
    /\ Solo
    /\ UNCHANGED << testMode, opens, now >>

\* The consumer of the input adapter numbered 1 reads one chunk: read()
\* takes it and calls _read() for more.
Consume ==
    /\ readable[1].pushed # <<>>
    /\ \E pushOk \in BOOLEAN :
           Becomes([St EXCEPT !.readable[1] =
                                 _read([@ EXCEPT !.pushed = Tail(@)], pushOk)])
    /\ lastOp' = "consume"
    /\ lastKey' = NoKey
    /\ Solo
    /\ UNCHANGED << testMode, opens, calls, now >>

\* A writer calls write(chunk) on the output adapter numbered 1 of the role.
Write(role, chunk) ==
    /\ calls < MaxCalls
    /\ Becomes(write(St, role, 1, chunk))
    /\ calls' = calls + 1
    /\ lastOp' = "write"
    /\ lastKey' = NoKey
    /\ Solo
    /\ UNCHANGED << testMode, opens, now >>

\* --------------------------------------------------------- specifications
\* The extension host before activation; the fields of a controller that has
\* not been constructed.
hostInactive ==
    [active |-> FALSE, commands |-> {}, invocations |-> 0, pending |-> 0,
     terminals |-> <<>>]

noController ==
    [testMode |-> FALSE, stdin |-> 0, stdout |-> 0, stderr |-> 0,
     inkInstance |-> 0, writeEvents |-> <<>>, closeEvents |-> <<>>,
     thrown |-> FALSE, lifecycle |-> "None"]

\* A controller as constructed, before the host calls open().
Init ==
    /\ testMode \in BOOLEAN
    /\ stdin = 0
    /\ stdout = 0
    /\ stderr = 0
    /\ inkInstance = 0
    /\ writeEvents = <<>>
    /\ closeEvents = <<>>
    /\ opens = 0
    /\ readable = [g \in Gens |-> newReadable]
    /\ out = [g \in Gens |-> newWritable(DefaultDimensions)]
    /\ err = [g \in Gens |-> newWritable(DefaultDimensions)]
    /\ ink = [g \in Gens |-> "none"]
    /\ hook = [g \in Gens |-> "none"]
    /\ unmountCalls = [g \in Gens |-> 0]
    /\ app = [g \in Gens |-> newApp(TRUE)]
    /\ processExits = <<>>
    /\ thrown = FALSE
    /\ lifecycle = "Idle"
    /\ calls = 0
    /\ now = 0
    /\ lastOp = "new"
    /\ lastKey = NoKey
    /\ host = hostInactive
    /\ peer = noController
    /\ owner = [g \in Gens |-> 0]
    /\ actor = 1

\* The arguments the host gives to open(): undefined, or dimensions.
OpenArguments == { {} } \cup { { d } : d \in HostDimensions }

Next ==
    \/ \E d \in OpenArguments, f \in BOOLEAN : Open(d, f)
    \/ Close
    \/ \E data \in HostChunks : HandleInput(data)
    \/ \E d \in ResizeDimensions : SetDimensions(d)
    \/ \E g \in Gens : MountComplete(g)
    \/ \E g \in Gens : MountFailed(g)
    \/ \E g \in Gens : InkExits(g)
    \/ \E g \in Gens : AppInput(g)
    \/ \E g \in Gens : AppRender(g)

\* The embedded session: the host drives the controller.
Spec == Init /\ [][Next]_vars

\* AppRender(g) can take a step: its guard.
AppRenderEnabled(g) == Running /\ ink[g] = "mounted" /\ app[g].dirty

\* The embedded session with its scheduling: once state is set, React
\* commits the re-render and runs its effects.  This is weak fairness of
\* each AppRender(g), WF_vars(AppRender(g)), with ENABLED written out as
\* the action's guard.
SpecLive ==
    Spec /\ \A g \in Gens :
                \/ []<>(~AppRenderEnabled(g))
                \/ []<><<AppRender(g)>>_vars

\* The application alone, mounted and fed key events: embedded (mounted by
\* open() on the controller's streams, with the exit callback) or as the
\* standalone process (no exit callback, no controller).
InitApp ==
    \E embedded \in BOOLEAN :
        /\ testMode = FALSE
        /\ stdin = (IF embedded THEN 1 ELSE 0)
        /\ stdout = (IF embedded THEN 1 ELSE 0)
        /\ stderr = (IF embedded THEN 1 ELSE 0)
        /\ inkInstance = (IF embedded THEN 1 ELSE 0)
        /\ writeEvents = (IF embedded THEN <<Frame>> ELSE <<>>)
        /\ closeEvents = <<>>
        /\ opens = (IF embedded THEN 1 ELSE 0)
        /\ readable = [g \in Gens |-> newReadable]
        /\ out = [g \in Gens |-> newWritable(DefaultDimensions)]
        /\ err = [g \in Gens |-> newWritable(DefaultDimensions)]
        /\ ink = [g \in Gens |-> IF g = 1 THEN "mounted" ELSE "none"]
        /\ hook = [g \in Gens |-> IF g = 1 /\ embedded THEN "registered" ELSE "none"]
        /\ unmountCalls = [g \in Gens |-> 0]
        /\ app = [g \in Gens |-> newApp(g # 1 \/ embedded)]
        /\ processExits = <<>>
        /\ thrown = FALSE
        /\ lifecycle = (IF embedded THEN "Open" ELSE "Idle")
        /\ calls = 0
        /\ now = 0
        /\ lastOp = "new"
        /\ lastKey = NoKey
        /\ host = hostInactive
        /\ peer = noController
        /\ owner = [g \in Gens |-> IF g = 1 /\ embedded THEN 1 ELSE 0]
        /\ actor = 1

NextApp ==
    \/ \E key \in KeyEvents : KeyEvent(1, key)
    \/ AppRender(1)
    \/ Tick

SpecApp == InitApp /\ [][NextApp]_vars

\* Texts of history entries: up to MaxText characters, not blank.
RainbowChars == { "h", "i" }

Texts == UNION { [1..n -> RainbowChars] : n \in 1..MaxText }

\* Histories of one entry, and of two entries of which one has at most
\* MaxLen characters.
Histories ==
    { << [text |-> t, timestamp |-> 0] >> : t \in Texts }
        \cup { << [text |-> p[1], timestamp |-> 0],
                   [text |-> p[2], timestamp |-> 0] >> :
                   p \in { q \in Texts \X Texts :
                              Len(q[1]) <= MaxLen \/ Len(q[2]) <= MaxLen } }

\* The key events that typed and submitted the entries of history h.
RECURSIVE keysTyped(_)
keysTyped(h) ==
    IF h = <<>> THEN 0 ELSE Len(Head(h).text) + 1 + keysTyped(Tail(h))

\* The application with the texts of history h typed and submitted, each
\* submitted after the render that followed its last character; the render
\* that follows the last submit is due.
InitRainbow ==
    \E embedded \in BOOLEAN, h \in Histories :
        /\ testMode = FALSE
        /\ stdin = (IF embedded THEN 1 ELSE 0)
        /\ stdout = (IF embedded THEN 1 ELSE 0)
        /\ stderr = (IF embedded THEN 1 ELSE 0)
        /\ inkInstance = (IF embedded THEN 1 ELSE 0)
        /\ writeEvents = (IF embedded THEN [n \in 1..(Len(h) + 1) |-> Frame]
                                      ELSE <<>>)
        /\ closeEvents = <<>>
        /\ opens = (IF embedded THEN 1 ELSE 0)
        /\ readable = [g \in Gens |-> newReadable]
        /\ out = [g \in Gens |->
                     IF g = 1 /\ embedded
                     THEN [newWritable(DefaultDimensions)
                              EXCEPT !.callbacks = Len(h) + 1]
                     ELSE newWritable(DefaultDimensions)]
        /\ err = [g \in Gens |-> newWritable(DefaultDimensions)]
        /\ ink = [g \in Gens |-> IF g = 1 THEN "mounted" ELSE "none"]
        /\ hook = [g \in Gens |-> IF g = 1 /\ embedded THEN "registered" ELSE "none"]
        /\ unmountCalls = [g \in Gens |-> 0]
        /\ app = [g \in Gens |->
                     IF g = 1
                     THEN [newApp(embedded)
                              EXCEPT !.history = h,
                                     !.closure = h[Len(h)].text,
                                     !.dirty = TRUE,
                                     !.events = keysTyped(h),
                                     !.rendered =
                                         renderHistory(SubSeq(h, 1, Len(h) - 1))]
                     ELSE newApp(TRUE)]
        /\ processExits = <<>>
        /\ thrown = FALSE
        /\ lifecycle = (IF embedded THEN "Open" ELSE "Idle")
        /\ calls = 0
        /\ now = 0
        /\ lastOp = "new"
        /\ lastKey = NoKey
        /\ host = hostInactive
        /\ peer = noController
        /\ owner = [g \in Gens |-> IF g = 1 /\ embedded THEN 1 ELSE 0]
        /\ actor = 1

NextRainbow == AppRender(1)

\* The application rendering a history of arbitrary entries.
SpecRainbow == InitRainbow /\ [][NextRainbow]_vars

\* Chunks written to an output adapter: the strings the renderer writes,
\* and Buffers, one of which ends in the middle of a character.
WriteChunks ==
    { StringChunk(<< "a" >>), StringChunk(<< HS, LS, "b" >>),
      BufferChunk(<< "c" >>), BufferChunk(<< "F0", "9F" >>) }

Roles == { "out", "err" }

\* The stream adapters of a controller opened in test mode (no renderer is
\* mounted on them), driven by the controller's handleInput and by callers
\* of their own methods.
InitStreams ==
    /\ testMode = TRUE
    /\ stdin = 1
    /\ stdout = 1
    /\ stderr = 1
    /\ inkInstance = 0
    /\ writeEvents = << TestBanner1, TestBanner2 >>
    /\ closeEvents = <<>>
    /\ opens = 1
    /\ readable = [g \in Gens |-> newReadable]
    /\ out = [g \in Gens |-> newWritable(DefaultDimensions)]
    /\ err = [g \in Gens |-> newWritable(DefaultDimensions)]
    /\ ink = [g \in Gens |-> "none"]
    /\ hook = [g \in Gens |-> "none"]
    /\ unmountCalls = [g \in Gens |-> 0]
    /\ app = [g \in Gens |-> newApp(TRUE)]
    /\ processExits = <<>>
    /\ thrown = FALSE
    /\ lifecycle = "Open"
    /\ calls = 0
    /\ now = 0
    /\ lastOp = "new"
    /\ lastKey = NoKey
    /\ host = hostInactive
    /\ peer = noController
    /\ owner = [g \in Gens |-> IF g = 1 THEN 1 ELSE 0]
    /\ actor = 1

NextStreams ==
    \/ \E data \in HostChunks : HandleInput(data)
    \/ \E data \in HostChunks : FeedInput(data)
    \/ ReadableClose
    \/ Consume
    \/ \E role \in Roles, chunk \in WriteChunks : Write(role, chunk)

SpecStreams == InitStreams /\ [][NextStreams]_vars

\* ------------------------------------------------- extension and sessions
CommandId == "rainbow-echo-terminal.openTerminal"

TerminalName == << HS, LS, " Rainbow Echo" >>

\* The terminals the command is invoked for: two sessions.
Terminals == { 1, 2 }

\* new RainbowPseudoterminal(): the fields of the new instance, with its own
\* writeEmitter and closeEmitter.
newController(S) ==
    [S EXCEPT !.testMode = FALSE, !.stdin = 0, !.stdout = 0, !.stderr = 0,
              !.inkInstance = 0, !.writeEvents = <<>>, !.closeEvents = <<>>,
              !.thrown = FALSE, !.lifecycle = "Idle"]

\* The program state as the methods of controller c read it: c's fields,
\* and the objects.
View(c) ==
    IF c = 1
    THEN St
    ELSE [St EXCEPT !.self = c, !.testMode = peer.testMode,
                    !.stdin = peer.stdin, !.stdout = peer.stdout,
                    !.stderr = peer.stderr, !.inkInstance = peer.inkInstance,
                    !.writeEvents = peer.writeEvents,
                    !.closeEvents = peer.closeEvents,
                    !.thrown = peer.thrown, !.lifecycle = peer.lifecycle]

\* The next state is S, reached by a method of controller c: c's fields and
\* the objects are S's, the other controller's fields stay.
BecomesFor(c, S) ==
    IF c = 1
    THEN Becomes(S) /\ testMode' = S.testMode /\ peer' = peer
    ELSE /\ peer' = [testMode |-> S.testMode, stdin |-> S.stdin,
                     stdout |-> S.stdout, stderr |-> S.stderr,
                     inkInstance |-> S.inkInstance,
                     writeEvents |-> S.writeEvents,
                     closeEvents |-> S.closeEvents, thrown |-> S.thrown,
                     lifecycle |-> S.lifecycle]
         /\ readable' = S.readable
         /\ out' = S.out
         /\ err' = S.err
         /\ ink' = S.ink
         /\ hook' = S.hook
         /\ unmountCalls' = S.unmountCalls
         /\ app' = S.app
         /\ processExits' = S.processExits
         /\ owner' = S.owner
         /\ UNCHANGED << testMode, stdin, stdout, stderr, inkInstance,
                         writeEvents, closeEvents, thrown, lifecycle >>

\* A command handler that keeps one controller and hands it to every
\* terminal.
openTerminalCommandOnePty(terminals) ==
    Append(terminals, [name |-> TerminalName, pty |-> 1, shown |-> TRUE])

\* The command handler: const pty = new RainbowPseudoterminal(); const
\* terminal = createTerminal({ name, pty }); terminal.show().  Controllers
\* are numbered in the order of their construction.
openTerminalCommand(terminals) ==
    Append(terminals,
           [name |-> TerminalName, pty |-> Len(terminals) + 1, shown |-> TRUE])

\* The host activates the extension: activate() registers the command.
Activate ==
    /\ ~host.active
    /\ host' = [host EXCEPT !.active = TRUE,
                            !.commands = @ \cup { CommandId }]
    /\ lastOp' = "activate"
    /\ lastKey' = NoKey
    /\ actor' = 0
    /\ UNCHANGED << testMode, stdin, stdout, stderr, inkInstance, writeEvents,
                    closeEvents, opens, readable, out, err, ink, hook,
                    unmountCalls, app, processExits, thrown, lifecycle, calls,
                    now, peer, owner >>

\* The user runs the command: the handler starts and awaits the import of
\* the controller's module.
ExecuteCommand ==
    /\ CommandId \in host.commands
    /\ host.invocations < Cardinality(Terminals)
    /\ host' = [host EXCEPT !.invocations = @ + 1, !.pending = @ + 1]
    /\ lastOp' = "executeCommand"
    /\ lastKey' = NoKey
    /\ actor' = 0
    /\ UNCHANGED << testMode, stdin, stdout, stderr, inkInstance, writeEvents,
                    closeEvents, opens, readable, out, err, ink, hook,
                    unmountCalls, app, processExits, thrown, lifecycle, calls,
                    now, peer, owner >>

\* The import has resolved: the handler constructs the controller and
\* creates and shows the terminal.
ImportResolved ==
    /\ host.pending > 0
    /\ LET terminals == openTerminalCommand(host.terminals)
           t == Len(terminals)
           c == terminals[t].pty
       IN  /\ host' = [host EXCEPT !.terminals = terminals, !.pending = @ - 1]
           /\ BecomesFor(c, IF View(c).lifecycle = "None"
                            THEN newController(View(c))
                            ELSE View(c))
           /\ actor' = t
    /\ lastOp' = "openTerminalCommand"
    /\ lastKey' = NoKey
    /\ UNCHANGED << opens, calls, now >>

\* The host opens terminal t.
OpenOf(t, initialDimensions, requireFails) ==
    /\ Running
    /\ calls < MaxSessionCalls
    /\ opens < MaxOpens
    /\ t <= Len(host.terminals)
    /\ LET c == host.terminals[t].pty
       IN  BecomesFor(c, settle(open(View(c), opens + 1, initialDimensions,
                                     requireFails)))
    /\ opens' = opens + 1
    /\ calls' = calls + 1
    /\ lastOp' = "open"
    /\ lastKey' = NoKey
    /\ actor' = t
    /\ UNCHANGED << now, host >>

\* The host closes terminal t.
CloseOf(t) ==
    /\ Running
    /\ calls < MaxSessionCalls
    /\ t <= Len(host.terminals)
    /\ LET c == host.terminals[t].pty
       IN  BecomesFor(c, settle(close(View(c))))
    /\ calls' = calls + 1
    /\ lastOp' = "close"
    /\ lastKey' = NoKey
    /\ actor' = t
    /\ UNCHANGED << opens, now, host >>

\* The user types in terminal t.
HandleInputOf(t, data) ==
    /\ Running
    /\ calls < MaxSessionCalls
    /\ t <= Len(host.terminals)
    /\ LET c == host.terminals[t].pty
       IN  \E pushOk \in BOOLEAN :
               BecomesFor(c, handleInput(View(c), data, pushOk))
    /\ calls' = calls + 1
    /\ lastOp' = "handleInput"
    /\ lastKey' = NoKey
    /\ actor' = t
    /\ UNCHANGED << opens, now, host >>

\* Terminal t is resized.
SetDimensionsOf(t, dimensions) ==
    /\ Running
    /\ calls < MaxSessionCalls
    /\ t <= Len(host.terminals)
    /\ LET c == host.terminals[t].pty
       IN  BecomesFor(c, setDimensions(View(c), dimensions))
    /\ calls' = calls + 1
    /\ lastOp' = "setDimensions"
    /\ lastKey' = NoKey
    /\ actor' = t
    /\ UNCHANGED << opens, now, host >>

\* The terminal of the controller that created the objects numbered g: its
\* callbacks and its application run on that controller.
TerminalOf(g) ==
    CHOOSE t \in 1..Len(host.terminals) : host.terminals[t].pty = owner[g]

\* await renderApp(...) of the open() that created g resolves.
MountCompleteOf(g) ==
    /\ Running
    /\ ink[g] = "pending"
    /\ BecomesFor(owner[g], settle(mountComplete(View(owner[g]), g)))
    /\ lastOp' = "mountComplete"
    /\ lastKey' = NoKey
    /\ actor' = TerminalOf(g)
    /\ UNCHANGED << opens, calls, now, host >>

\* await renderApp(...) of the open() that created g rejects.
MountFailedOf(g) ==
    /\ Running
    /\ ink[g] = "pending"
    /\ BecomesFor(owner[g], settle(mountFailed(View(owner[g]), g)))
    /\ lastOp' = "mountFailed"
    /\ lastKey' = NoKey
    /\ actor' = TerminalOf(g)
    /\ UNCHANGED << opens, calls, now, host >>

\* The renderer g ends by itself.
InkExitsOf(g) ==
    /\ Running
    /\ ink[g] = "mounted"
    /\ BecomesFor(owner[g],
                  settle([View(owner[g]) EXCEPT !.ink[g] = "unmounted"]))
    /\ lastOp' = "inkExits"
    /\ lastKey' = NoKey
    /\ actor' = TerminalOf(g)
    /\ UNCHANGED << opens, calls, now, host >>

\* The renderer g reads the next chunk of its stdin and hands the key event
\* to its application.
AppInputOf(g) ==
    /\ Running
    /\ ink[g] = "mounted"
    /\ readable[g].pushed # <<>>
    /\ LET chunk == Head(readable[g].pushed)
           S1 == [View(owner[g]) EXCEPT !.readable[g].pushed = Tail(@)]
       IN  /\ BecomesFor(owner[g],
                         [S1 EXCEPT !.app[g] =
                                       useInput(@, parseKeypress(chunk), now)])
           /\ lastKey' = parseKeypress(chunk)
    /\ lastOp' = "appInput"
    /\ actor' = TerminalOf(g)
    /\ UNCHANGED << opens, calls, now, host >>

\* React commits the re-render of the application of g.
AppRenderOf(g) ==
    /\ Running
    /\ ink[g] = "mounted"
    /\ app[g].dirty
    /\ BecomesFor(owner[g], settle(rerender(View(owner[g]), g)))
    /\ lastOp' = "appRender"
    /\ lastKey' = NoKey
    /\ actor' = TerminalOf(g)
    /\ UNCHANGED << opens, calls, now, host >>

\* The extension host before activation: no controller exists.
InitTwo ==
    /\ testMode = FALSE
    /\ stdin = 0
    /\ stdout = 0
    /\ stderr = 0
    /\ inkInstance = 0
    /\ writeEvents = <<>>
    /\ closeEvents = <<>>
    /\ opens = 0
    /\ readable = [g \in Gens |-> newReadable]
    /\ out = [g \in Gens |-> newWritable(DefaultDimensions)]
    /\ err = [g \in Gens |-> newWritable(DefaultDimensions)]
    /\ ink = [g \in Gens |-> "none"]
    /\ hook = [g \in Gens |-> "none"]
    /\ unmountCalls = [g \in Gens |-> 0]
    /\ app = [g \in Gens |-> newApp(TRUE)]
    /\ processExits = <<>>
    /\ thrown = FALSE
    /\ lifecycle = "None"
    /\ calls = 0
    /\ now = 0
    /\ lastOp = "new"
    /\ lastKey = NoKey
    /\ host = hostInactive
    /\ peer = noController
    /\ owner = [g \in Gens |-> 0]
    /\ actor = 0

NextTwo ==
    \/ Activate
    \/ ExecuteCommand
    \/ ImportResolved
    \/ \E t \in Terminals, d \in OpenArguments, f \in BOOLEAN : OpenOf(t, d, f)
    \/ \E t \in Terminals : CloseOf(t)
    \/ \E t \in Terminals, data \in HostChunks : HandleInputOf(t, data)
    \/ \E t \in Terminals, d \in ResizeDimensions : SetDimensionsOf(t, d)
    \/ \E g \in Gens : MountCompleteOf(g)
    \/ \E g \in Gens : MountFailedOf(g)
    \/ \E g \in Gens : InkExitsOf(g)
    \/ \E g \in Gens : AppInputOf(g)
    \/ \E g \in Gens : AppRenderOf(g)

\* The extension in its host: the command creates sessions, and the host
\* and the user drive each of them.
SpecTwo == InitTwo /\ [][NextTwo]_vars

\* ----------------------------------------------------------------- claims
\* Steps of the host's callbacks, and of the calls of handleExit.
CloseStep == lastOp' = "close" /\ calls' = calls + 1
HandleInputStep == lastOp' = "handleInput" /\ calls' = calls + 1
HandleExitStep == closeEvents' # closeEvents
Cleared == stdin = 0 /\ stdout = 0 /\ stderr = 0 /\ inkInstance = 0

\* C1: however often handleExit is invoked on one controller, exactly one
\* close notification is fired in total (the second and later invocations
\* fire nothing) and no exception is raised.
C1_HandleExitOnce == Len(closeEvents) <= 1 /\ ~thrown

\* C2: in the session wired by one open(), whichever of the two completion
\* hooks fires first and however the mount's completion interleaves, at most
\* one close notification is fired, and unmount and the input adapter's
\* close happen at most once.
C2_DoubleCompletion ==
    opens = 1 =>
        /\ Len(closeEvents) <= 1
        /\ unmountCalls[1] <= 1
        /\ readable[1].closeCalls <= 1

\* Both hooks of the session have fired: the exit callback ran and the
\* then-callback of waitUntilExit() ran after it.
C2_Witness ==
    /\ opens = 1
    /\ app[1].exits = 1
    /\ hook[1] = "fired"
    /\ closeEvents = <<0>>

\* C3: handleInput called when the controller is not Open (before open(),
\* after close() or handleExit) delivers nothing to any input adapter, fires
\* no display event and no close notification, and raises nothing.
C3_InputOutsideOpen ==
    [][ HandleInputStep /\ lifecycle # "Open" =>
            /\ readable' = readable
            /\ app' = app
            /\ writeEvents' = writeEvents
            /\ closeEvents' = closeEvents
            /\ thrown' = thrown ]_vars

\* handleInput has just been called on a closed controller whose input
\* adapter had been created.
C3_Witness ==
    /\ lastOp = "handleInput"
    /\ lifecycle = "Closed"
    /\ opens >= 1

\* C4: Closed is terminal: once the controller is Closed no step, a further
\* open() included, creates adapters, stores a renderer handle or leaves
\* Closed.
C4_ClosedIsTerminal ==
    [][ lifecycle = "Closed" =>
            /\ lifecycle' = "Closed"
            /\ opens' = opens
            /\ stdin' = 0 /\ stdout' = 0 /\ stderr' = 0
            /\ inkInstance' = 0 ]_vars

\* C5: every cleanup, from close() or from handleExit, in any order and any
\* number of times, leaves all adapter references dropped, has the
\* controller call unmount at most once per renderer instance and close at
\* most once per input adapter, lets no exception escape, and unmounts and
\* closes nothing when the state is already cleared.
C5_CleanupSafe ==
    [][ CloseStep \/ HandleExitStep =>
            /\ stdin' = 0 /\ stdout' = 0 /\ stderr' = 0 /\ inkInstance' = 0
            /\ \A g \in Gens : unmountCalls'[g] <= 1 /\ readable'[g].closeCalls <= 1
            /\ thrown' = thrown
            /\ Cleared /\ opens' = opens =>
                   /\ unmountCalls' = unmountCalls
                   /\ readable' = readable ]_vars

\* close() has just run after handleExit had already cleaned up the session
\* whose renderer was mounted.
C5_Witness ==
    /\ lastOp = "close"
    /\ closeEvents # <<>>
    /\ unmountCalls[1] = 1
    /\ readable[1].closeCalls = 1

\* C6: once the host's close() has closed the session (Closed, and no close
\* notification fired), no close notification is fired later for it.
C6_CloseNeverNotifies ==
    [][ lifecycle = "Closed" /\ closeEvents = <<>> /\ opens' = opens =>
            closeEvents' = <<>> ]_vars

\* C7: when the mount fails, in the same step the controller fires the
\* one-line error message, cleans up (Closed, references dropped, the
\* session's input adapter closed) and fires a close notification with
\* code 1; nothing is raised.
C7_MountFailure ==
    [][ \A g \in Gens :
            ink[g] # "failed" /\ ink'[g] = "failed" =>
                /\ writeEvents' = Append(writeEvents, ErrorLine)
                /\ closeEvents' = Append(closeEvents, 1)
                /\ lifecycle' = "Closed"
                /\ stdin' = 0 /\ stdout' = 0 /\ stderr' = 0 /\ inkInstance' = 0
                /\ stdin = g => readable'[g].isClosed /\ readable'[g].ended
                /\ thrown' = thrown ]_vars

\* The pending mount of an open session has just been rejected.
C7_Witness ==
    /\ lastOp = "mountFailed"
    /\ \E g \in Gens : ink[g] = "failed"
    /\ closeEvents = <<1>>

\* A submit key event (key.return) on the application.
SubmitStep == \E key \in KeyEvents : key.return /\ KeyEvent(1, key)

\* C8: a submit while the buffer is non-empty after trimming appends the
\* buffer's text, untrimmed, with the current time to history and empties
\* the buffer.
C8_SubmitAppends ==
    [][ SubmitStep /\ trim(app[1].inputText) # <<>> =>
            /\ app'[1].history =
                   Append(app[1].history,
                          [text |-> app[1].inputText, timestamp |-> now])
            /\ app'[1].inputText = <<>> ]_vars

\* C9: a submit while the buffer is empty or all whitespace changes neither
\* history nor the buffer nor exiting, and raises nothing.
C9_BlankSubmitNoOp ==
    [][ SubmitStep /\ trim(app[1].inputText) = <<>> =>
            /\ app'[1].history = app[1].history
            /\ app'[1].inputText = app[1].inputText
            /\ app'[1].isExiting = app[1].isExiting
            /\ thrown' = thrown ]_vars

\* C10 (as claimed): the text of every history entry is non-empty and
\* trimmed.
C10_EntriesTrimmed ==
    \A i \in 1..Len(app[1].history) :
        LET text == app[1].history[i].text
        IN  text # <<>> /\ trim(text) = text

\* C10 (amended): the text of every history entry is non-empty after
\* trimming, and no step changes the text or the timestamp of an entry that
\* exists.
C10_EntriesNonBlankImmutable ==
    /\ [](\A i \in 1..Len(app[1].history) :
              trim(app[1].history[i].text) # <<>>)
    /\ [][ /\ Len(app'[1].history) >= Len(app[1].history)
           /\ \A i \in 1..Len(app[1].history) :
                  app'[1].history[i] = app[1].history[i] ]_vars

\* History holds an entry stored with leading or trailing whitespace, and a
\* later key event has been handled.
C10_Witness ==
    /\ \E i \in 1..Len(app[1].history) :
           trim(app[1].history[i].text) # app[1].history[i].text
    /\ app[1].inputText # <<>>

\* A key event on the application, and the cases of the handler.
KeyEventStep == lastOp' = "keyEvent"
DeleteKeyEvent(key) == ~key.return /\ (key.backspace \/ key.delete)
CancelKeyEvent(key) ==
    ~key.return /\ ~key.backspace /\ ~key.delete /\ key.escape

\* C11: history is append-only: over every step the earlier history is a
\* prefix of the later one (no entry removed, reordered or modified), and it
\* grows only on a key event, by at most one entry.
C11_HistoryAppendOnly ==
    [][ LET before == app[1].history
            after == app'[1].history
        IN  /\ Len(after) \in { Len(before), Len(before) + 1 }
            /\ SubSeq(after, 1, Len(before)) = before
            /\ Len(after) > Len(before) => KeyEventStep ]_vars

\* Two submissions of different texts have been appended.
C11_Witness ==
    /\ Len(app[1].history) = 2
    /\ app[1].history[1].text # app[1].history[2].text

\* C12: the timestamps of the history entries are non-decreasing in history
\* order.
C12_TimestampsOrdered ==
    \A i, j \in 1..Len(app[1].history) :
        i < j => app[1].history[i].timestamp <= app[1].history[j].timestamp

\* Two submissions have been appended at different times.
C12_Witness ==
    /\ Len(app[1].history) = 2
    /\ app[1].history[1].timestamp < app[1].history[2].timestamp

\* C13: delete-last removes exactly the final character of a non-empty
\* buffer and leaves an empty buffer empty; it changes neither history nor
\* exiting and raises nothing.
C13_DeleteLast ==
    [][ \A key \in KeyEvents :
            KeyEventStep /\ lastKey' = key /\ DeleteKeyEvent(key) =>
                LET before == app[1].inputText
                    after == app'[1].inputText
                IN  /\ before = <<>> => after = <<>>
                    /\ before # <<>> =>
                           /\ Len(after) = Len(before) - 1
                           /\ after = SubSeq(before, 1, Len(after))
                    /\ app'[1].history = app[1].history
                    /\ app'[1].isExiting = app[1].isExiting
                    /\ thrown' = thrown ]_vars

\* The keys 'h', BACKSPACE, BACKSPACE: the last of three key events was
\* BACKSPACE, the buffer had held 'h' and is empty.
C13_Witness ==
    /\ lastOp = "keyEvent"
    /\ lastKey = BackspaceKey
    /\ app[1].events = 3
    /\ app[1].closure = << "h" >>
    /\ app[1].inputText = <<>>
    /\ app[1].history = <<>>

\* C14: the exit side effect fires at most once per session: the exit
\* callback is invoked, or the process is terminated, at most one time.
C14_ExitAtMostOnce ==
    /\ app[1].exits <= 1
    /\ Len(processExits) <= 1
    /\ Len(closeEvents) <= 1

\* The exit effect has run after several key events, the cancel key among
\* them.
C14_Witness ==
    /\ app[1].exits = 1
    /\ app[1].isExiting
    /\ app[1].events = MaxKeys

\* C15: the cancel key sets exiting; when the exit effect runs, an
\* application given an exit callback invokes it (the controller fires the
\* close notification 0) and does not terminate the process, and an
\* application without one terminates the process with code 0.
C15_CancelStrategy ==
    [][ /\ \A key \in KeyEvents :
               KeyEventStep /\ lastKey' = key /\ CancelKeyEvent(key) =>
                   app'[1].isExiting
        /\ app'[1].exits # app[1].exits =>
               /\ app[1].isExiting
               /\ app'[1].exits = app[1].exits + 1
               /\ IF app[1].onExit
                  THEN /\ closeEvents' = Append(closeEvents, 0)
                       /\ processExits' = processExits
                  ELSE /\ processExits' = Append(processExits, 0)
                       /\ closeEvents' = closeEvents ]_vars

\* The standalone process has terminated with code 0 on the cancel key.
C15_Witness ==
    /\ ~app[1].onExit
    /\ app[1].isExiting
    /\ processExits = << 0 >>

\* The session wired by the first open() is Open with its renderer mounted.
FirstSessionOpen ==
    opens = 1 /\ lifecycle = "Open" /\ inkInstance = 1 /\ ink[1] = "mounted"

\* The host's close() has ended the first session before the exit effect
\* ran: Closed and cleaned up, without a notification.
ClosedByHostFirst ==
    /\ lifecycle = "Closed"
    /\ Cleared
    /\ closeEvents = <<>>
    /\ app[1].exits = 0
    /\ unmountCalls[1] = 1
    /\ readable[1].isClosed

TextualForm(chunk) ==
    IF chunk.type = "string" THEN chunk.data ELSE utf8Decode(chunk.data)

\* C17: the output adapters never buffer, reorder or drop: every
\* write(chunk), on the stdout-role or the stderr-role adapter, fires the
\* chunk's textual form as the next display event and invokes the write's
\* callback in the same step; no other step fires a display event.
C17_WriteForwards ==
    [][ /\ \A role \in Roles, chunk \in WriteChunks :
               Write(role, chunk) =>
                   /\ writeEvents' = Append(writeEvents, TextualForm(chunk))
                   /\ (IF role = "out" THEN out' ELSE err')[1].callbacks =
                          (IF role = "out" THEN out ELSE err)[1].callbacks + 1
        /\ Len(writeEvents') - Len(writeEvents) =
               (out'[1].callbacks - out[1].callbacks)
                   + (err'[1].callbacks - err[1].callbacks) ]_vars

\* A string with the emoji was written to the stdout-role adapter, then a
\* Buffer ending inside a character to the stderr-role adapter.
C17_Witness ==
    /\ writeEvents =
           << TestBanner1, TestBanner2, << HS, LS, "b" >>, << FFFD >> >>
    /\ out[1].callbacks = 1
    /\ err[1].callbacks = 1

\* C18: a chunk fed to an input adapter that is not closed, by feedInput or
\* through the controller's handleInput, is handed to the consumer at once,
\* once, unmodified and after the chunks fed before it; a chunk fed to a
\* closed adapter is dropped, nothing is delivered and nothing is raised.
C18_FeedInputDelivers ==
    [][ \A data \in HostChunks :
            FeedInput(data) \/ (HandleInput(data) /\ stdin = 1) =>
                /\ thrown' = thrown
                /\ IF readable[1].isClosed
                   THEN readable' = readable
                   ELSE /\ readable'[1].pushed = Append(readable[1].pushed, data)
                        /\ readable'[1].buffer = <<>>
                        /\ readable'[1].ended = readable[1].ended ]_vars

\* A chunk was fed to the closed adapter, after two chunks were delivered in
\* feed order.
C18_Witness ==
    /\ lastOp \in { "feedInput", "handleInput" }
    /\ readable[1].isClosed
    /\ readable[1].pushed = << "h", CR >>
    /\ calls = 4

\* C19: close() of the input adapter sets the closed flag, and the consumer
\* is signalled end-of-stream exactly once however often close() is called.
C19_CloseSignalsOnce ==
    /\ readable[1].closeCalls = 0 =>
           ~readable[1].isClosed /\ readable[1].endSignals = 0
    /\ readable[1].closeCalls >= 1 =>
           /\ readable[1].isClosed
           /\ readable[1].ended
           /\ readable[1].endSignals = 1

\* close() was called twice, with a chunk fed before and between.
C19_Witness ==
    /\ readable[1].closeCalls = 2
    /\ readable[1].pushed # <<>>
    /\ lastOp = "readableClose"

C21_OpenConstructs ==
    [][ \A d \in OpenArguments, f \in BOOLEAN :
            Open(d, f) /\ lifecycle = "Idle" =>
                LET g == opens + 1
                    dims == IF d = {}
                            THEN [columns |-> 80, rows |-> 24]
                            ELSE CHOOSE x \in d : TRUE
                IN  /\ opens' = g
                    /\ out'[g].columns = dims.columns /\ out'[g].rows = dims.rows
                    /\ err'[g].columns = dims.columns /\ err'[g].rows = dims.rows
                    /\ readable'[g].buffer = <<>> /\ readable'[g].pushed = <<>>
                    /\ testMode \/ ~f =>
                           /\ stdin' = g /\ stdout' = g /\ stderr' = g
                           /\ ~readable'[g].isClosed
                    /\ \A h \in Gens \ { g } :
                           /\ readable'[h] = readable[h]
                           /\ out'[h] = out[h]
                           /\ err'[h] = err[h] ]_vars

\* The first call on the controller was open() with the host's dimensions.
C21_Witness ==
    /\ lastOp = "open"
    /\ calls = 1
    /\ opens = 1
    /\ stdin = 1 /\ stdout = 1 /\ stderr = 1
    /\ out[1].columns = 100 /\ out[1].rows = 30
    /\ err[1].columns = 100 /\ err[1].rows = 30

C27_ClosedHoldsNothing ==
    opens = 1 /\ lifecycle = "Closed" =>
        /\ Cleared
        /\ ink[1] # "mounted"

\* C28: within a session, once close() has returned or a close notification
\* has been fired, no further display event is fired.
C28_NoDisplayAfterEnd ==
    [][ opens = 1 /\ lifecycle = "Closed" /\ opens' = 1 =>
            writeEvents' = writeEvents ]_vars

\* C29: a submit that follows character or delete events before the
\* component has re-rendered acts on the up-to-date buffer: it appends the
\* buffer's text and clears the buffer when the text is not blank, and
\* changes nothing when it is blank.
C29_SubmitUsesCurrentBuffer ==
    [][ SubmitStep /\ app[1].dirty /\ app[1].closure # app[1].inputText =>
            IF trim(app[1].inputText) # <<>>
            THEN /\ Len(app'[1].history) = Len(app[1].history) + 1
                 /\ app'[1].history[Len(app'[1].history)].text = app[1].inputText
                 /\ app'[1].inputText = <<>>
            ELSE /\ app'[1].history = app[1].history
                 /\ app'[1].inputText = app[1].inputText ]_vars

\* C30: each key event takes one branch, tested in the order submit,
\* delete-last, cancel, printable character, and changes only that branch's
\* state: submit never changes exiting; delete-last and character-append
\* change only the buffer; cancel changes neither the buffer nor history;
\* any other event changes none of the three.
C30_OneBranch ==
    [][ \A key \in KeyEvents :
            KeyEventStep /\ lastKey' = key =>
                LET a == app[1]
                    b == app'[1]
                    printable == ~key.ctrl /\ ~key.meta /\ Len(key.char) = 1
                IN  CASE key.return ->
                             b.isExiting = a.isExiting
                      [] DeleteKeyEvent(key) ->
                             /\ b.history = a.history
                             /\ b.isExiting = a.isExiting
                             /\ Len(b.inputText) <= Len(a.inputText)
                      [] CancelKeyEvent(key) ->
                             /\ b.inputText = a.inputText
                             /\ b.history = a.history
                             /\ b.isExiting
                      [] OTHER ->
                             /\ b.history = a.history
                             /\ b.isExiting = a.isExiting
                             /\ b.inputText =
                                    (IF printable
                                     THEN a.inputText \o key.char
                                     ELSE a.inputText) ]_vars

\* A key event carrying the flags of two branches, submit and cancel, has
\* been handled with text in the buffer, and exiting is not set.
C30_Witness ==
    /\ lastOp = "keyEvent"
    /\ lastKey = [EnterKey EXCEPT !.escape = TRUE]
    /\ Len(app[1].history) = 1
    /\ ~app[1].isExiting

\* The fields of controller c, and everything session t owns: the fields of
\* its controller and the adapters, renderers and applications its
\* controller's open() created.
FieldsOf(c) ==
    IF c = 1
    THEN [stdin |-> stdin, stdout |-> stdout, stderr |-> stderr,
          inkInstance |-> inkInstance, writeEvents |-> writeEvents,
          closeEvents |-> closeEvents, thrown |-> thrown,
          lifecycle |-> lifecycle]
    ELSE [stdin |-> peer.stdin, stdout |-> peer.stdout,
          stderr |-> peer.stderr, inkInstance |-> peer.inkInstance,
          writeEvents |-> peer.writeEvents,
          closeEvents |-> peer.closeEvents, thrown |-> peer.thrown,
          lifecycle |-> peer.lifecycle]

SessionOf(t) ==
    LET c == host.terminals[t].pty
    IN  [fields |-> FieldsOf(c),
         objects |-> [g \in Gens |->
                         IF owner[g] = c
                         THEN << readable[g], out[g], err[g], ink[g], hook[g],
                                 unmountCalls[g], app[g] >>
                         ELSE << >>]]

\* C22: with two sessions created by two invocations of the command, every
\* step made on one of them (open, handleInput, setDimensions, close, its
\* mount, its application's key events, renders and exit) leaves the other's
\* controller fields, adapters with their dimensions and buffers, application
\* state with its history, lifecycle state, display events and close
\* notifications unchanged.
C22_SessionsIsolated ==
    [][ \A t \in Terminals :
            Len(host.terminals) = 2 /\ actor' # t =>
                SessionOf(t)' = SessionOf(t) ]_vars

\* Both sessions were open with their application mounted; the second has
\* ended by its application's exit, the first is still open and mounted and
\* has fired no close notification.
C22_Witness ==
    /\ Len(host.terminals) = 2
    /\ host.terminals[1].pty = 1
    /\ host.terminals[2].pty = 2
    /\ actor = 2
    /\ lastOp = "appRender"
    /\ peer.lifecycle = "Closed"
    /\ peer.closeEvents = << 0 >>
    /\ Len(peer.writeEvents) >= 1
    /\ lifecycle = "Open"
    /\ inkInstance # 0
    /\ ink[inkInstance] = "mounted"
    /\ closeEvents = << >>

ColoursOf(e) == [i \in 1..Len(e) |-> e[i].color]
CharsOf(e) == [i \in 1..Len(e) |-> e[i].char]

\* C23: in every rendered entry the character at position i (counted from
\* 0) has the i mod 6-th colour of red, yellow, green, cyan, blue, magenta;
\* the index restarts at 0 in every entry, whatever the other entries are.
C23_ColourByIndex ==
    LET a == app[1]
        COLOR_SEQUENCE ==
            << "red", "yellow", "green", "cyan", "blue", "magenta" >>
    IN  /\ Len(a.rendered) <= Len(a.history)
        /\ ~a.dirty => Len(a.rendered) = Len(a.history)
        /\ \A j \in 1..Len(a.rendered) :
               /\ Len(a.rendered[j]) = Len(a.history[j].text)
               /\ \A i \in 0..(Len(a.rendered[j]) - 1) :
                      a.rendered[j][i + 1].color = COLOR_SEQUENCE[(i % 6) + 1]

\* Two entries are rendered: the first is long enough for the index to wrap
\* (its seventh character is red again), the second starts at red.
C23_Witness ==
    /\ lastOp = "appRender"
    /\ Len(app[1].rendered) = 2
    /\ Len(app[1].history[1].text) = 7
    /\ Len(app[1].history[2].text) = 2
    /\ ColoursOf(app[1].rendered[1]) =
           << "red", "yellow", "green", "cyan", "blue", "magenta", "red" >>
    /\ ColoursOf(app[1].rendered[2]) = << "red", "yellow" >>

\* C24: the coloured pieces of every rendered entry, concatenated in output
\* order, are the entry's text: same characters, same order, same length.
C24_ContentPreserved ==
    /\ ~app[1].dirty => Len(app[1].rendered) = Len(app[1].history)
    /\ \A j \in 1..Len(app[1].rendered) :
           /\ j <= Len(app[1].history)
           /\ CharsOf(app[1].rendered[j]) = app[1].history[j].text

\* An entry of seven characters, not all the same, is rendered.
C24_Witness ==
    /\ lastOp = "appRender"
    /\ Len(app[1].rendered) = 1
    /\ app[1].history[1].text = << "h", "i", "i", "h", "h", "i", "h" >>
    /\ CharsOf(app[1].rendered[1]) = << "h", "i", "i", "h", "h", "i", "h" >>

\* A character event: none of the submit, delete and cancel flags is set.
CharacterKeyEvent(key) ==
    ~key.return /\ ~key.backspace /\ ~key.delete /\ ~key.escape

\* C31: a character event appends its character at the end of the buffer
\* when it carries exactly one character and neither control nor meta is
\* set, whatever the buffer's length; with control or meta set, or with no
\* or several characters, it leaves buffer, history and exiting unchanged.
C31_CharacterAppend ==
    [][ \A key \in KeyEvents :
            KeyEventStep /\ lastKey' = key /\ CharacterKeyEvent(key) =>
                /\ app'[1].history = app[1].history
                /\ app'[1].isExiting = app[1].isExiting
                /\ IF Len(key.char) = 1 /\ ~key.ctrl /\ ~key.meta
                   THEN /\ Len(app'[1].inputText) = Len(app[1].inputText) + 1
                        /\ SubSeq(app'[1].inputText, 1, Len(app[1].inputText))
                               = app[1].inputText
                        /\ app'[1].inputText[Len(app'[1].inputText)]
                               = key.char[1]
                   ELSE app'[1].inputText = app[1].inputText ]_vars

\* A character event with the control modifier set has been handled while
\* the buffer held a character: the buffer still holds just that character.
C31_Witness ==
    /\ lastOp = "keyEvent"
    /\ lastKey = [CharKey("h") EXCEPT !.ctrl = TRUE]
    /\ app[1].events = 2
    /\ app[1].inputText = << "i" >>
    /\ app[1].history = << >>
    /\ ~app[1].isExiting

\* C32: once exiting is true it stays true, and no later key event changes
\* the input buffer or the history.
C32_ExitingFreezes ==
    [][ app[1].isExiting =>
            /\ app'[1].isExiting
            /\ KeyEventStep =>
                   /\ app'[1].inputText = app[1].inputText
                   /\ app'[1].history = app[1].history ]_vars

\* C32 as the code has it: once exiting is true it stays true; the handler
\* does not test exiting, so key events handled before the exit effect has
\* run change buffer and history as usual; once the exit effect has run
\* (the renderer is unmounted or the process has exited) no step changes
\* the buffer or the history.
C32_ExitingThenTeardown ==
    [][ app[1].isExiting =>
            /\ app'[1].isExiting
            /\ app[1].exits > 0 =>
                   /\ app'[1].inputText = app[1].inputText
                   /\ app'[1].history = app[1].history
                   /\ app'[1].events = app[1].events ]_vars

\* Cancel, then a character before the exit effect ran, then the exit
\* effect, then time passes: the buffer holds the character and stays so.
C32_Witness ==
    /\ lastOp = "tick"
    /\ app[1].isExiting
    /\ app[1].exits = 1
    /\ app[1].events = 2
    /\ app[1].inputText = << "h" >>
    /\ app[1].history = << >>
    /\ closeEvents = << 0 >>

\* A step of the host's call `op` on the controller.
HostCallStep(op) == lastOp' = op /\ calls' = calls + 1

\* C33: with the test-mode flag set, open() fires the two banner lines and
\* nothing else and starts no mount; the renderer is never mounted;
\* handleInput and setDimensions fire no display event and no close
\* notification; close() clears the references and closes the input
\* adapter, raises nothing and fires nothing.
C33_TestMode ==
    /\ [](testMode =>
              /\ inkInstance = 0
              /\ \A g \in Gens : ink[g] = "none" /\ hook[g] = "none"
              /\ closeEvents = << >>
              /\ ~thrown)
    /\ [][ testMode =>
              /\ HostCallStep("open") =>
                     /\ writeEvents' =
                            writeEvents \o << TestBanner1, TestBanner2 >>
                     /\ lifecycle' = "Open"
              /\ HostCallStep("handleInput") \/ HostCallStep("setDimensions") =>
                     /\ writeEvents' = writeEvents
                     /\ closeEvents' = closeEvents
              /\ HostCallStep("close") =>
                     /\ writeEvents' = writeEvents
                     /\ closeEvents' = closeEvents
                     /\ stdin' = 0 /\ stdout' = 0 /\ stderr' = 0
                     /\ lifecycle' = "Closed"
                     /\ stdin # 0 => readable'[stdin].isClosed ]_vars

\* A test-mode controller was opened, given input, resized and closed: the
\* display got the two banner lines and nothing more.
C33_Witness ==
    /\ testMode
    /\ lastOp = "close"
    /\ calls = 4
    /\ opens = 1
    /\ writeEvents = << TestBanner1, TestBanner2 >>
    /\ closeEvents = << >>
    /\ readable[1].pushed # << >>
    /\ readable[1].isClosed
    /\ out[1].columns = 120
    /\ Cleared
    /\ ~thrown

\* C34: the input adapter's queue is empty whenever feedInput or _read has
\* returned with the adapter not closed, so close() finds no chunk left in
\* the queue.
C34_QueueEmpty ==
    \A g \in Gens :
        /\ ~readable[g].isClosed => readable[g].buffer = << >>
        /\ readable[g].closeCalls > 0 => readable[g].buffer = << >>

\* Two chunks were fed to an open adapter and the consumer has read
\* neither: both were handed over, the queue is empty.
C34_Witness ==
    /\ lastOp = "feedInput"
    /\ ~readable[1].isClosed
    /\ Len(readable[1].pushed) = 2
    /\ readable[1].buffer = << >>

====
